---------------------------- MODULE Spec2Model ----------------------------
(***************************************************************************)
(* Colour extraction of Chromatic Geography: scripts/test_palette.py and   *)
(* scripts/test_palette copy.py.                                           *)
(*                                                                         *)
(* Colours are triples <<r, g, b>> of integers in 0..255.  The HSL values  *)
(* the scripts compute in binary floating point are kept here as exact     *)
(* fractions <<numerator, denominator>> and compared by cross              *)
(* multiplication; the colours of the model are chosen so that the float   *)
(* comparisons of the scripts agree with the exact ones.  color_distance   *)
(* is kept as the radicand of the Euclidean distance (the square root is   *)
(* strictly increasing, so every comparison of two distances, and of a     *)
(* distance with an integer threshold, is decided on the radicands).       *)
(***************************************************************************)
EXTENDS Integers, Sequences, FiniteSets, TLC

VARIABLES
    pc,             \* position of the operation under check
    colors,         \* argument: candidate colours (filter, diversity, pipeline)
    strict,         \* argument of filter_boring_colors
    max_browns,     \* argument of filter_colors / filter_boring_colors
    min_distance,   \* argument of ensure_diversity / ensure_color_diversity
    num_colors,     \* argument of extract_colors*, NUM_COLORS in process_city
    ret,            \* value returned by the operation
    pixels,         \* kmeans_colors: argument
    k,              \* kmeans_colors: argument
    max_iterations, \* kmeans_colors: argument
    centroids,      \* kmeans_colors: local
    clusters,       \* kmeans_colors: local
    iteration,      \* kmeans_colors: loop counter
    script,         \* process_city: which script runs
    images,         \* process_city: len(images), the files are numbered from 1
    idx,            \* process_city: number of images already handled
    all_palettes,   \* process_city: local
    all_colors,     \* process_city: local
    city_dir_exists,\* process_city: city_dir.exists()
    reads           \* process_city: for each image handled, "ok" or "failed"

vars == <<pc, colors, strict, max_browns, min_distance, num_colors, ret,
          pixels, k, max_iterations, centroids, clusters, iteration,
          script, images, idx, all_palettes, all_colors, city_dir_exists, reads>>

argVars    == <<colors, strict, max_browns, min_distance>>
kmeansVars == <<pixels, k, max_iterations, centroids, clusters, iteration>>
cityVars   == <<script, images, idx, all_palettes, all_colors, city_dir_exists,
                reads>>

-----------------------------------------------------------------------------
(* Bounds and the colours the inputs are drawn from *)

MaxLen == 3       \* longest list of candidate colours
MaxBrowns == 2    \* largest max_browns
MaxTarget == 2    \* largest num_colors besides NUM_COLORS
MaxPixels == 3    \* largest pixel population of kmeans_colors
MaxK == 2         \* largest k
MaxIter == 2      \* largest max_iterations besides the default
MaxImages == 3    \* most image files of a city
MaxCand == 2      \* longest quantizer result of an image of a city

NUM_COLORS == 6
DefaultMinDistance == 30
DefaultMaxBrowns == 2
DefaultMaxIterations == 20

Gray    == <<128, 128, 128>>
Silver  == <<200, 200, 200>>
Red     == <<230, 20, 20>>
Blue    == <<20, 20, 230>>
Green   == <<20, 200, 20>>
Yellow  == <<230, 230, 20>>
NearRed == <<230, 20, 50>>
Rose    == <<240, 30, 30>>
Dark    == <<10, 10, 30>>
Pale    == <<215, 185, 185>>
Muddy   == <<160, 100, 100>>
Brown1  == <<150, 100, 60>>
Brown2  == <<120, 90, 50>>
Brown3  == <<180, 120, 80>>
Dull1   == <<120, 110, 110>>
Dull2   == <<100, 90, 80>>

SeqsUpTo(S, n) == UNION {[1..m -> S] : m \in 0..n}

Range(s) == {s[i] : i \in 1..Len(s)}

-----------------------------------------------------------------------------
(* Colour conversion *)

HexDigits == <<"0", "1", "2", "3", "4", "5", "6", "7",
               "8", "9", "a", "b", "c", "d", "e", "f">>

\* as Hex02, for the format spec x without zero padding
HexX(n) == IF n < 16 THEN <<HexDigits[n + 1]>>
           ELSE <<HexDigits[(n \div 16) + 1], HexDigits[(n % 16) + 1]>>

\* format spec 02x of one channel
Hex02(n) == IF n < 256
            THEN <<HexDigits[(n \div 16) + 1], HexDigits[(n % 16) + 1]>>
            ELSE <<HexDigits[(n \div 256) + 1]>> \o
                 <<HexDigits[((n % 256) \div 16) + 1], HexDigits[(n % 16) + 1]>>

rgb_to_hex(c) == <<"#">> \o Hex02(c[1]) \o Hex02(c[2]) \o Hex02(c[3])

\* str.lstrip(ch)
RECURSIVE lstrip(_, _)
lstrip(str, ch) ==
    IF str # <<>> /\ str[1] = ch THEN lstrip(Tail(str), ch) ELSE str

\* int(digits, 16) of two lowercase hexadecimal digits
HexValue(d) == (CHOOSE i \in 1..16 : HexDigits[i] = d) - 1
Int16(digits) == 16 * HexValue(digits[1]) + HexValue(digits[2])

hex_to_rgb(hex_color) ==
    LET stripped == lstrip(hex_color, "#")
    IN  <<Int16(SubSeq(stripped, 1, 2)),
          Int16(SubSeq(stripped, 3, 4)),
          Int16(SubSeq(stripped, 5, 6))>>

Max3(a, b, c) == IF a >= b /\ a >= c THEN a ELSE IF b >= c THEN b ELSE c
Min3(a, b, c) == IF a <= b /\ a <= c THEN a ELSE IF b <= c THEN b ELSE c

\* fractions with positive denominators
Lt(x, y) == x[1] * y[2] < y[1] * x[2]
Le(x, y) == x[1] * y[2] <= y[1] * x[2]
Num(n)   == <<n, 1>>

\* (h, s, l); dividing the three channels by 255.0 is left out of max_c, min_c
\* and diff, so l > 0.5 reads max_c + min_c > 255
rgb_to_hsl(c) ==
    LET r == c[1]
        g == c[2]
        b == c[3]
        max_c == Max3(r, g, b)
        min_c == Min3(r, g, b)
        diff == max_c - min_c
        l == <<100 * (max_c + min_c), 510>>
    IN  IF diff = 0
        THEN <<Num(0), Num(0), l>>
        ELSE LET s == IF max_c + min_c > 255
                      THEN <<100 * diff, 510 - max_c - min_c>>
                      ELSE <<100 * diff, max_c + min_c>>
                 h == IF max_c = r
                      THEN <<60 * (((g - b) + 6 * diff) % (6 * diff)), diff>>
                      ELSE IF max_c = g
                           THEN <<60 * ((b - r) + 2 * diff), diff>>
                           ELSE <<60 * ((r - g) + 4 * diff), diff>>
             IN  <<h, s, l>>

Hue(c)        == rgb_to_hsl(c)[1]
Saturation(c) == rgb_to_hsl(c)[2]
Lightness(c)  == rgb_to_hsl(c)[3]

\* radicand of the Euclidean distance
color_distance(c1, c2) ==
    (c1[1] - c2[1]) * (c1[1] - c2[1]) + (c1[2] - c2[2]) * (c1[2] - c2[2])
      + (c1[3] - c2[3]) * (c1[3] - c2[3])

\* as FartherThan, with >= for >
FartherOrAsFar(c1, c2, m) == m < 0 \/ color_distance(c1, c2) >= m * m

\* color_distance(c1, c2) > m for the distance itself
FartherThan(c1, c2, m) == m < 0 \/ color_distance(c1, c2) > m * m

-----------------------------------------------------------------------------
(* sorted(xs, key=saturation, reverse=True) and list.sort with the same key *)
(* and reverse=True: descending, equal keys keep their order                *)

\* as InsertBySaturation, for a sort that is not stable: x goes before its equals
InsertBySaturationUnstable(sorted, x) ==
    LET n == Cardinality({i \in 1..Len(sorted) :
                             Lt(Saturation(x), Saturation(sorted[i]))})
    IN  SubSeq(sorted, 1, n) \o <<x>> \o SubSeq(sorted, n + 1, Len(sorted))

\* x put behind the elements whose saturation is at least its own (sorted is
\* descending, so these are its first n elements)
InsertBySaturation(sorted, x) ==
    LET n == Cardinality({i \in 1..Len(sorted) :
                             Le(Saturation(x), Saturation(sorted[i]))})
    IN  SubSeq(sorted, 1, n) \o <<x>> \o SubSeq(sorted, n + 1, Len(sorted))

RECURSIVE SortFrom(_, _, _)
SortFrom(xs, i, sorted) ==
    IF i > Len(xs) THEN sorted
    ELSE SortFrom(xs, i + 1, InsertBySaturation(sorted, xs[i]))

sorted_by_sat(xs) == SortFrom(xs, 1, <<>>)

-----------------------------------------------------------------------------
(* Colour filter *)

\* as too_dark_or_light, with 50 for 15
too_dark_or_light_50(c) == Lt(Lightness(c), Num(50)) \/ Lt(Num(85), Lightness(c))

too_dark_or_light(c) == Lt(Lightness(c), Num(15)) \/ Lt(Num(85), Lightness(c))
too_gray(c)          == Lt(Saturation(c), Num(20))
muddy(c)             == /\ Lt(Saturation(c), Num(30))
                        /\ Lt(Num(25), Lightness(c))
                        /\ Lt(Lightness(c), Num(75))
is_brown(c)          == /\ Le(Num(15), Hue(c)) /\ Le(Hue(c), Num(45))
                        /\ Lt(Saturation(c), Num(55))
                        /\ Lt(Num(25), Lightness(c))
                        /\ Lt(Lightness(c), Num(65))

\* the loop of filter_colors from candidate i on: the list filtered
RECURSIVE filter_colors_loop(_, _, _, _, _)
filter_colors_loop(cs, maxb, i, filtered, brown_count) ==
    IF i > Len(cs) THEN filtered
    ELSE LET rgb == cs[i]
         IN  IF too_dark_or_light(rgb) \/ too_gray(rgb) \/ muddy(rgb)
             THEN filter_colors_loop(cs, maxb, i + 1, filtered, brown_count)
             ELSE IF is_brown(rgb)
                  THEN IF brown_count >= maxb
                       THEN filter_colors_loop(cs, maxb, i + 1, filtered, brown_count)
                       ELSE filter_colors_loop(cs, maxb, i + 1,
                                               Append(filtered, rgb), brown_count + 1)
                  ELSE filter_colors_loop(cs, maxb, i + 1,
                                          Append(filtered, rgb), brown_count)

\* as filter_colors, with brown_count > max_browns for the cap
filter_colors_one_more_brown(cs, maxb) ==
    LET filtered == filter_colors_loop(cs, maxb + 1, 1, <<>>, 0)
    IN  IF filtered = <<>> THEN sorted_by_sat(cs) ELSE sorted_by_sat(filtered)

\* as filter_colors, without the fallback of lines 67-68
filter_colors_no_fallback(cs, maxb) ==
    sorted_by_sat(filter_colors_loop(cs, maxb, 1, <<>>, 0))

filter_colors(cs, maxb) ==
    LET filtered == filter_colors_loop(cs, maxb, 1, <<>>, 0)
    IN  IF filtered = <<>> THEN sorted_by_sat(cs) ELSE sorted_by_sat(filtered)

lenient_reject(c) == \/ Lt(Lightness(c), Num(10)) \/ Lt(Num(90), Lightness(c))
                     \/ Lt(Saturation(c), Num(10))

\* the loop of filter_boring_colors from candidate i on: the list filtered
RECURSIVE filter_boring_loop(_, _, _, _, _, _)
filter_boring_loop(cs, st, maxb, i, filtered, brown_count) ==
    IF i > Len(cs) THEN filtered
    ELSE LET rgb == cs[i]
             skip ==
                 IF st
                 THEN \/ too_dark_or_light(rgb) \/ too_gray(rgb) \/ muddy(rgb)
                      \/ (is_brown(rgb) /\ brown_count >= maxb)
                 ELSE lenient_reject(rgb)
             counted == st /\ ~skip /\ is_brown(rgb)
         IN  filter_boring_loop(cs, st, maxb, i + 1,
                                IF skip THEN filtered ELSE Append(filtered, rgb),
                                IF counted THEN brown_count + 1 ELSE brown_count)

filter_boring_colors(cs, st, maxb) ==
    LET filtered == filter_boring_loop(cs, st, maxb, 1, <<>>, 0)
    IN  IF filtered = <<>> THEN sorted_by_sat(cs) ELSE sorted_by_sat(filtered)

-----------------------------------------------------------------------------
(* Diversity selector *)

RECURSIVE ensure_diversity_loop(_, _, _, _)
ensure_diversity_loop(cs, md, i, diverse) ==
    IF i > Len(cs) THEN diverse
    ELSE IF \A j \in 1..Len(diverse) : FartherThan(cs[i], diverse[j], md)
         THEN ensure_diversity_loop(cs, md, i + 1, Append(diverse, cs[i]))
         ELSE ensure_diversity_loop(cs, md, i + 1, diverse)

\* as ensure_diversity, a colour compared with the first kept colour only
ensure_diversity_first_only(cs, md) ==
    IF cs = <<>> THEN cs
    ELSE <<cs[1]>> \o SelectSeq(Tail(cs), LAMBDA c : FartherThan(c, cs[1], md))

ensure_diversity(cs, md) ==
    IF cs = <<>> THEN cs ELSE ensure_diversity_loop(cs, md, 2, <<cs[1]>>)

RECURSIVE ensure_color_diversity_loop(_, _, _, _)
ensure_color_diversity_loop(cs, md, i, diverse) ==
    IF i > Len(cs) THEN diverse
    ELSE LET is_diverse == \A j \in 1..Len(diverse) :
                               FartherThan(cs[i], diverse[j], md)
         IN  ensure_color_diversity_loop(cs, md, i + 1,
                 IF is_diverse THEN Append(diverse, cs[i]) ELSE diverse)

ensure_color_diversity(cs, md) ==
    IF cs = <<>> THEN cs ELSE ensure_color_diversity_loop(cs, md, 2, <<cs[1]>>)

-----------------------------------------------------------------------------
(* Palette of one image, from the colours the quantizer returned *)

\* as Take, one element too many
TakeOneMore(s, n) == SubSeq(s, 1, IF n + 1 < Len(s) THEN n + 1 ELSE Len(s))

\* s[:n]
Take(s, n) == SubSeq(s, 1, IF n < Len(s) THEN n ELSE Len(s))

HexAll(cs) == [i \in 1..Len(cs) |-> rgb_to_hex(cs[i])]

\* extract_colors after ColorThief.get_palette returned palette
extract_colors(palette, n) ==
    LET filtered == filter_colors(palette, DefaultMaxBrowns)
        diverse  == ensure_diversity(filtered, DefaultMinDistance)
    IN  HexAll(Take(diverse, n))

\* extract_colors_easy after ColorThief.get_palette returned palette
extract_colors_easy(palette, n) ==
    LET filtered == filter_boring_colors(palette, TRUE, DefaultMaxBrowns)
        diverse  == ensure_color_diversity(filtered, DefaultMinDistance)
    IN  HexAll(Take(diverse, n))

\* extract_colors_from_image after kmeans_colors returned raw_colors
extract_colors_from_image(raw_colors, n) ==
    LET filtered == filter_boring_colors(raw_colors, TRUE, DefaultMaxBrowns)
        diverse  == ensure_color_diversity(filtered, DefaultMinDistance)
    IN  HexAll(Take(diverse, n))

-----------------------------------------------------------------------------
(* Counter(all_colors).most_common(n): the n most frequent elements, the   *)
(* most frequent first; elements of equal count in the order in which they *)
(* first occur (the order of the Counter's keys)                           *)

Count(seq, x) == Cardinality({i \in 1..Len(seq) : seq[i] = x})

\* the keys of the Counter: the elements of seq in order of first occurrence
RECURSIVE CounterKeys(_, _, _)
CounterKeys(seq, i, keys) ==
    IF i > Len(seq) THEN keys
    ELSE CounterKeys(seq, i + 1,
                     IF seq[i] \in Range(keys) THEN keys ELSE Append(keys, seq[i]))

\* as InsertByCount, with equal counts in the reverse order
InsertByCountReversed(seq, sorted, x) ==
    LET n == Cardinality({i \in 1..Len(sorted) : Count(seq, sorted[i]) > Count(seq, x)})
    IN  SubSeq(sorted, 1, n) \o <<x>> \o SubSeq(sorted, n + 1, Len(sorted))

\* key x put behind the keys of sorted whose count is at least its own
InsertByCount(seq, sorted, x) ==
    LET n == Cardinality({i \in 1..Len(sorted) : Count(seq, sorted[i]) >= Count(seq, x)})
    IN  SubSeq(sorted, 1, n) \o <<x>> \o SubSeq(sorted, n + 1, Len(sorted))

RECURSIVE SortByCount(_, _, _, _)
SortByCount(seq, keys, i, sorted) ==
    IF i > Len(keys) THEN sorted
    ELSE SortByCount(seq, keys, i + 1, InsertByCount(seq, sorted, keys[i]))

most_common(seq, n) ==
    Take(SortByCount(seq, CounterKeys(seq, 1, <<>>), 1, <<>>), n)

-----------------------------------------------------------------------------
(* k-means quantizer *)

\* distances.index(min(distances)), counted from 1
find_closest_centroid(pixel, cents) ==
    CHOOSE i \in 1..Len(cents) :
        /\ \A j \in 1..Len(cents) :
               color_distance(pixel, cents[i]) <= color_distance(pixel, cents[j])
        /\ \A j \in 1..(i - 1) :
               color_distance(pixel, cents[j]) > color_distance(pixel, cents[i])

RECURSIVE SumChannel(_, _, _)
SumChannel(ps, ch, i) ==
    IF i > Len(ps) THEN 0 ELSE ps[i][ch] + SumChannel(ps, ch, i + 1)

\* as calculate_centroid, without the division by len(pixels)
calculate_centroid_sums(ps) ==
    IF ps = <<>> THEN <<128, 128, 128>>
    ELSE <<SumChannel(ps, 1, 1), SumChannel(ps, 2, 1), SumChannel(ps, 3, 1)>>

calculate_centroid(ps) ==
    IF ps = <<>> THEN <<128, 128, 128>>
    ELSE <<SumChannel(ps, 1, 1) \div Len(ps),
           SumChannel(ps, 2, 1) \div Len(ps),
           SumChannel(ps, 3, 1) \div Len(ps)>>

\* the pixels of ps from position i on that are closest to centroid number c
RECURSIVE ClusterOf(_, _, _, _)
ClusterOf(ps, cents, c, i) ==
    IF i > Len(ps) THEN <<>>
    ELSE IF find_closest_centroid(ps[i], cents) = c
         THEN <<ps[i]>> \o ClusterOf(ps, cents, c, i + 1)
         ELSE ClusterOf(ps, cents, c, i + 1)

\* step 2 of a round: the kk clusters
assign_clusters(ps, kk, cents) == [c \in 1..kk |-> ClusterOf(ps, cents, c, 1)]

\* step 3 reads centroids[i] of an empty cluster i: IndexError past the end
new_centroids_raises(cls, cents) ==
    \E i \in 1..Len(cls) : cls[i] = <<>> /\ i > Len(cents)

\* as new_centroids, with calculate_centroid called for an empty cluster too
new_centroids_gray(cls, cents) ==
    [i \in 1..Len(cls) |-> calculate_centroid(cls[i])]

new_centroids(cls, cents) ==
    [i \in 1..Len(cls) |->
        IF cls[i] # <<>> THEN calculate_centroid(cls[i]) ELSE cents[i]]

\* random.sample(pixels, n): the pixels at n different positions, in any order,
\* that is every list of n colours that takes no colour more often than pixels has it
Samples(ps, n) ==
    {s \in [1..n -> Range(ps)] :
        \A c \in Range(ps) : Count(s, c) <= Count(ps, c)}

\* tuple order of Python on (size, (r, g, b))
ColorGt(a, b) == \/ a[1] > b[1]
                 \/ a[1] = b[1] /\ a[2] > b[2]
                 \/ a[1] = b[1] /\ a[2] = b[2] /\ a[3] > b[3]

\* as SizedGe, for a sort without reverse=True
SizedLe(x, y) == \/ x[1] < y[1]
                 \/ x[1] = y[1] /\ (ColorGt(y[2], x[2]) \/ x[2] = y[2])

SizedGe(x, y) == \/ x[1] > y[1]
                 \/ x[1] = y[1] /\ (ColorGt(x[2], y[2]) \/ x[2] = y[2])

\* x put behind the elements of sorted that are at least x
InsertSized(sorted, x) ==
    LET n == Cardinality({i \in 1..Len(sorted) : SizedGe(sorted[i], x)})
    IN  SubSeq(sorted, 1, n) \o <<x>> \o SubSeq(sorted, n + 1, Len(sorted))

RECURSIVE SortSized(_, _, _)
SortSized(xs, i, sorted) ==
    IF i > Len(xs) THEN sorted
    ELSE SortSized(xs, i + 1, InsertSized(sorted, xs[i]))

\* lines 199-202: cluster_sizes.sort(reverse=True) and the colours of the result
sort_by_cluster_size(cls, cents, kk) ==
    LET cluster_sizes == [i \in 1..kk |-> <<Len(cls[i]), cents[i]>>]
        sorted == SortSized(cluster_sizes, 1, <<>>)
    IN  [i \in 1..kk |-> sorted[i][2]]

\* lines 175-202 from round number it on: <<"raised">> for the IndexError of
\* line 190, else <<"returned", the centroids by cluster size>>
RECURSIVE kmeans_loop(_, _, _, _, _, _)
kmeans_loop(ps, kk, mi, cents, cls, it) ==
    IF it = mi THEN <<"returned", sort_by_cluster_size(cls, cents, kk)>>
    ELSE LET cl == assign_clusters(ps, kk, cents)
         IN  IF new_centroids_raises(cl, cents) THEN <<"raised">>
             ELSE IF new_centroids(cl, cents) = cents
                  THEN <<"returned", sort_by_cluster_size(cl, cents, kk)>>
                  ELSE kmeans_loop(ps, kk, mi, new_centroids(cl, cents), cl, it + 1)

\* kmeans_colors(pixels, k) for the centroids random.sample has drawn
kmeans_colors(ps, kk, mi, sample) == kmeans_loop(ps, kk, mi, sample, <<>>, 0)

\* line 353: kmeans_colors(pixels, k=num_colors + 8)
KMeansOvershoot == 8

-----------------------------------------------------------------------------
(* Values of the variables an operation does not use *)

NoArgs   == /\ colors = <<>> /\ strict = TRUE /\ max_browns = DefaultMaxBrowns
            /\ min_distance = DefaultMinDistance
NoKMeans == /\ pixels = <<>> /\ k = 0 /\ max_iterations = 0
            /\ centroids = <<>> /\ clusters = <<>> /\ iteration = 0
NoCity   == /\ script = "none" /\ images = 0 /\ idx = 0 /\ all_palettes = <<>>
            /\ all_colors = <<>> /\ city_dir_exists = FALSE /\ reads = <<>>

Targets == (1..MaxTarget) \cup {NUM_COLORS}

-----------------------------------------------------------------------------
(* The colour filter on every list of candidates *)

FilterColors == {Gray, Silver, Dull2, Red, Blue, Dark, Pale, Muddy,
                 Brown1, Brown2, Brown3}

InitFilter ==
    /\ pc = "call"
    /\ colors \in SeqsUpTo(FilterColors, MaxLen)
    /\ strict \in BOOLEAN
    /\ max_browns \in 0..MaxBrowns
    /\ min_distance = DefaultMinDistance
    /\ num_colors = NUM_COLORS
    /\ ret = <<>>
    /\ NoKMeans /\ NoCity

Call_filter_colors ==
    /\ pc = "call" /\ strict
    /\ ret' = filter_colors(colors, max_browns)
    /\ pc' = "filter_colors"
    /\ UNCHANGED <<argVars, num_colors, kmeansVars, cityVars>>

Call_filter_boring_colors ==
    /\ pc = "call"
    /\ ret' = filter_boring_colors(colors, strict, max_browns)
    /\ pc' = "filter_boring_colors"
    /\ UNCHANGED <<argVars, num_colors, kmeansVars, cityVars>>

NextFilter == Call_filter_colors \/ Call_filter_boring_colors

SpecFilter == InitFilter /\ [][NextFilter]_vars

-----------------------------------------------------------------------------
(* rgb_to_hex and hex_to_rgb, each on its own and on the result of the other *)

ChannelValues == {0, 1, 9, 10, 15, 16, 128, 255}

DigitValues == {"0", "1", "9", "a", "f"}

HexStrings == {<<"#">> \o d : d \in [1..6 -> DigitValues]}

InitHex ==
    /\ pc = "call"
    /\ \/ colors \in {<<c>> : c \in ChannelValues \X ChannelValues \X ChannelValues}
          /\ all_colors = <<>>
       \/ colors = <<>>
          /\ all_colors \in {<<h>> : h \in HexStrings}
    /\ strict = TRUE /\ max_browns = DefaultMaxBrowns
    /\ min_distance = DefaultMinDistance
    /\ num_colors = NUM_COLORS
    /\ ret = <<>>
    /\ NoKMeans
    /\ script = "none" /\ images = 0 /\ idx = 0 /\ all_palettes = <<>>
    /\ city_dir_exists = FALSE /\ reads = <<>>

Call_rgb_to_hex ==
    /\ pc = "call" /\ colors # <<>>
    /\ ret' = rgb_to_hex(colors[1])
    /\ pc' = "rgb_to_hex"
    /\ UNCHANGED <<argVars, num_colors, kmeansVars, cityVars>>

Call_hex_to_rgb ==
    /\ pc = "call" /\ all_colors # <<>>
    /\ ret' = hex_to_rgb(all_colors[1])
    /\ pc' = "hex_to_rgb"
    /\ UNCHANGED <<argVars, num_colors, kmeansVars, cityVars>>

\* hex_to_rgb(rgb_to_hex(c))
Call_hex_to_rgb_of_hex ==
    /\ pc = "rgb_to_hex"
    /\ ret' = hex_to_rgb(ret)
    /\ pc' = "hex_to_rgb(rgb_to_hex)"
    /\ UNCHANGED <<argVars, num_colors, kmeansVars, cityVars>>

\* rgb_to_hex(hex_to_rgb(h))
Call_rgb_to_hex_of_rgb ==
    /\ pc = "hex_to_rgb"
    /\ ret' = rgb_to_hex(ret)
    /\ pc' = "rgb_to_hex(hex_to_rgb)"
    /\ UNCHANGED <<argVars, num_colors, kmeansVars, cityVars>>

NextHex ==
    \/ Call_rgb_to_hex
    \/ Call_hex_to_rgb
    \/ Call_hex_to_rgb_of_hex
    \/ Call_rgb_to_hex_of_rgb

SpecHex == InitHex /\ [][NextHex]_vars

-----------------------------------------------------------------------------
(* The diversity selector on every list of colours *)

DiversityColors == {Red, Rose, NearRed, Blue, Gray, Dull1}

MinDistances == {-1, 0, 17, DefaultMinDistance, 31}

InitDiversity ==
    /\ pc = "call"
    /\ colors \in SeqsUpTo(DiversityColors, MaxLen)
    /\ min_distance \in MinDistances
    /\ strict = TRUE /\ max_browns = DefaultMaxBrowns
    /\ num_colors = NUM_COLORS
    /\ ret = <<>>
    /\ NoKMeans /\ NoCity

Call_ensure_diversity ==
    /\ pc = "call"
    /\ ret' = ensure_diversity(colors, min_distance)
    /\ pc' = "ensure_diversity"
    /\ UNCHANGED <<argVars, num_colors, kmeansVars, cityVars>>

Call_ensure_color_diversity ==
    /\ pc = "call"
    /\ ret' = ensure_color_diversity(colors, min_distance)
    /\ pc' = "ensure_color_diversity"
    /\ UNCHANGED <<argVars, num_colors, kmeansVars, cityVars>>

NextDiversity == Call_ensure_diversity \/ Call_ensure_color_diversity

SpecDiversity == InitDiversity /\ [][NextDiversity]_vars

-----------------------------------------------------------------------------
(* The palette of one image, for every list of colours a quantizer returns *)

PaletteColors == {Red, Rose, Blue, Green, Gray, Brown1}

InitExtract ==
    /\ pc = "call"
    /\ colors \in SeqsUpTo(PaletteColors, MaxLen)
    /\ num_colors \in Targets
    /\ strict = TRUE /\ max_browns = DefaultMaxBrowns
    /\ min_distance = DefaultMinDistance
    /\ ret = <<>>
    /\ NoKMeans /\ NoCity

\* test_palette.py, ColorThief returns colors
Call_extract_colors ==
    /\ pc = "call"
    /\ ret' = extract_colors(colors, num_colors)
    /\ pc' = "extract_colors"
    /\ UNCHANGED <<argVars, num_colors, kmeansVars, cityVars>>

\* test_palette copy.py, ColorThief returns colors
Call_extract_colors_easy ==
    /\ pc = "call"
    /\ ret' = extract_colors_easy(colors, num_colors)
    /\ pc' = "extract_colors_easy"
    /\ UNCHANGED <<argVars, num_colors, kmeansVars, cityVars>>

\* test_palette copy.py, the image cannot be loaded
Call_extract_colors_from_image_unreadable ==
    /\ pc = "call"
    /\ ret' = <<>>
    /\ pc' = "extract_colors_from_image"
    /\ UNCHANGED <<argVars, num_colors, kmeansVars, cityVars>>

\* test_palette copy.py, kmeans_colors returns colors
Call_extract_colors_from_image ==
    /\ pc = "call"
    /\ ret' = extract_colors_from_image(colors, num_colors)
    /\ pc' = "extract_colors_from_image"
    /\ UNCHANGED <<argVars, num_colors, kmeansVars, cityVars>>

NextExtract ==
    \/ Call_extract_colors
    \/ Call_extract_colors_easy
    \/ Call_extract_colors_from_image_unreadable
    \/ Call_extract_colors_from_image

SpecExtract == InitExtract /\ [][NextExtract]_vars

-----------------------------------------------------------------------------
(* kmeans_colors, one round of the loop at a time *)

PixelColors == {Red, Rose, Blue, Gray}

IterationCaps == (1..MaxIter) \cup {DefaultMaxIterations}

InitKMeans ==
    /\ pc = "call"
    /\ pixels \in SeqsUpTo(PixelColors, MaxPixels)
    /\ k \in 1..MaxK
    /\ max_iterations \in IterationCaps
    /\ centroids = <<>> /\ clusters = <<>> /\ iteration = 0
    /\ num_colors = NUM_COLORS
    /\ ret = <<>>
    /\ NoArgs /\ NoCity

\* line 173
KMeansSample ==
    /\ pc = "call"
    /\ LET n == IF k < Len(pixels) THEN k ELSE Len(pixels)
       IN  centroids' \in Samples(pixels, n)
    /\ pc' = "loop"
    /\ UNCHANGED <<pixels, k, max_iterations, clusters, iteration, ret,
                   argVars, num_colors, cityVars>>

\* lines 175-190, new_centroids.append(centroids[i]) raises IndexError
KMeansIndexError ==
    /\ pc = "loop" /\ iteration < max_iterations
    /\ LET cls == assign_clusters(pixels, k, centroids)
       IN  /\ new_centroids_raises(cls, centroids)
           /\ clusters' = cls
    /\ pc' = "raised"
    /\ UNCHANGED <<pixels, k, max_iterations, centroids, iteration, ret,
                   argVars, num_colors, cityVars>>

\* lines 175-196, a round that changes the centroids
KMeansRound ==
    /\ pc = "loop" /\ iteration < max_iterations
    /\ LET cls == assign_clusters(pixels, k, centroids)
       IN  /\ ~new_centroids_raises(cls, centroids)
           /\ new_centroids(cls, centroids) # centroids
           /\ clusters' = cls
           /\ centroids' = new_centroids(cls, centroids)
    /\ iteration' = iteration + 1
    /\ UNCHANGED <<pc, pixels, k, max_iterations, ret, argVars, num_colors, cityVars>>

\* as KMeansConverged, without the break of line 194
KMeansConvergedNoBreak ==
    /\ pc = "loop" /\ iteration < max_iterations
    /\ LET cls == assign_clusters(pixels, k, centroids)
       IN  /\ ~new_centroids_raises(cls, centroids)
           /\ new_centroids(cls, centroids) = centroids
           /\ clusters' = cls
    /\ iteration' = iteration + 1
    /\ UNCHANGED <<pc, pixels, k, max_iterations, centroids, ret,
                   argVars, num_colors, cityVars>>

\* lines 175-194, a round that leaves the centroids as they are: break
KMeansConverged ==
    /\ pc = "loop" /\ iteration < max_iterations
    /\ LET cls == assign_clusters(pixels, k, centroids)
       IN  /\ ~new_centroids_raises(cls, centroids)
           /\ new_centroids(cls, centroids) = centroids
           /\ clusters' = cls
    /\ pc' = "sort"
    /\ UNCHANGED <<pixels, k, max_iterations, centroids, iteration, ret,
                   argVars, num_colors, cityVars>>

\* line 175, range(max_iterations) is used up
KMeansCapReached ==
    /\ pc = "loop" /\ iteration = max_iterations
    /\ pc' = "sort"
    /\ UNCHANGED <<pixels, k, max_iterations, centroids, clusters, iteration, ret,
                   argVars, num_colors, cityVars>>

\* lines 198-202
KMeansReturn ==
    /\ pc = "sort"
    /\ ret' = sort_by_cluster_size(clusters, centroids, k)
    /\ pc' = "done"
    /\ UNCHANGED <<kmeansVars, argVars, num_colors, cityVars>>

NextKMeans ==
    \/ KMeansSample
    \/ KMeansIndexError
    \/ KMeansRound
    \/ KMeansConverged
    \/ KMeansCapReached
    \/ KMeansReturn

SpecKMeans == InitKMeans /\ [][NextKMeans]_vars

-----------------------------------------------------------------------------
(* extract_colors_from_image on the pixels of a loaded image: kmeans_colors *)
(* with k = num_colors + 8 and 20 rounds at most, then filter, diversity,   *)
(* truncation and hex                                                        *)

VividColors == {Red, Blue, Green, Yellow}

\* four pixels of four different vivid colours
FourPixels == {s \in [1..4 -> VividColors] : \A i, j \in 1..4 : i # j => s[i] # s[j]}

\* as many pixels as the smallest k: r red ones, then blue ones
Crowd(r) == [i \in 1..(1 + KMeansOvershoot) |-> IF i <= r THEN Red ELSE Blue]

Crowds == {Crowd(r) : r \in KMeansOvershoot..(1 + KMeansOvershoot)}

InitFromPixels ==
    /\ pc = "call"
    /\ pixels \in FourPixels \cup SeqsUpTo(PixelColors, MaxPixels) \cup Crowds
    /\ num_colors \in Targets \cup {4}
    /\ k = 0 /\ max_iterations = DefaultMaxIterations
    /\ centroids = <<>> /\ clusters = <<>> /\ iteration = 0
    /\ ret = <<>>
    /\ NoArgs /\ NoCity

\* lines 349-353, kmeans_colors raises IndexError, which nothing here catches
ExtractFromPixelsRaises ==
    /\ pc = "call"
    /\ LET kk == num_colors + KMeansOvershoot
           n  == IF kk < Len(pixels) THEN kk ELSE Len(pixels)
       IN  /\ k' = kk
           /\ \E sample \in Samples(pixels, n) :
                  /\ kmeans_colors(pixels, kk, max_iterations, sample) = <<"raised">>
                  /\ centroids' = sample
    /\ pc' = "raised"
    /\ UNCHANGED <<pixels, max_iterations, clusters, iteration, ret,
                   argVars, num_colors, cityVars>>

\* lines 349-365, kmeans_colors returns and the palette is built
ExtractFromPixelsReturns ==
    /\ pc = "call"
    /\ LET kk == num_colors + KMeansOvershoot
           n  == IF kk < Len(pixels) THEN kk ELSE Len(pixels)
       IN  /\ k' = kk
           /\ \E sample \in Samples(pixels, n) :
                  LET run == kmeans_colors(pixels, kk, max_iterations, sample)
                  IN  /\ run[1] = "returned"
                      /\ centroids' = sample
                      /\ ret' = extract_colors_from_image(run[2], num_colors)
    /\ pc' = "extract_colors_from_image"
    /\ UNCHANGED <<pixels, max_iterations, clusters, iteration,
                   argVars, num_colors, cityVars>>

NextFromPixels == ExtractFromPixelsRaises \/ ExtractFromPixelsReturns

SpecFromPixels == InitFromPixels /\ [][NextFromPixels]_vars

-----------------------------------------------------------------------------
(* process_city of both scripts.  An image file is what reading it gives:  *)
(* ColorThief raises or returns a list of colours; in test_palette copy.py *)
(* a file ColorThief raised on either cannot be loaded or goes through     *)
(* kmeans_colors, called there with num_colors + 8 <= the number of pixels *)
(* of the resized image, which returns a list of colours.                  *)

Scripts == {"test_palette.py", "test_palette copy.py"}

CityColors == {Red, Blue, Green, Gray}

Candidates == SeqsUpTo(CityColors, MaxCand)

\* the palettes the three pipelines give over all quantizer results
Palettes_extract_colors ==
    [n \in Targets |-> {extract_colors(c, n) : c \in Candidates}]
Palettes_extract_colors_easy ==
    [n \in Targets |-> {extract_colors_easy(c, n) : c \in Candidates}]
Palettes_extract_colors_from_image ==
    [n \in Targets |-> {extract_colors_from_image(c, n) : c \in Candidates}]

None == [kind |-> "None"]

Init ==
    /\ pc = "call"
    /\ script \in Scripts
    /\ city_dir_exists \in BOOLEAN
    /\ images \in 0..MaxImages
    /\ ~city_dir_exists => images = 0
    /\ num_colors \in Targets
    /\ idx = 0 /\ all_palettes = <<>> /\ all_colors = <<>> /\ reads = <<>>
    /\ ret = None
    /\ NoArgs /\ NoKMeans

\* test_palette.py 94-95, test_palette copy.py 426-428
ReturnNoDirectory ==
    /\ pc = "call" /\ ~city_dir_exists
    /\ ret' = None
    /\ pc' = "done"
    /\ UNCHANGED <<argVars, num_colors, kmeansVars, cityVars>>

\* as ReturnNoImages, without the early return
ReturnNoImagesRecord ==
    /\ pc = "call" /\ city_dir_exists /\ images = 0
    /\ ret' = [kind |-> "dict", image_count |-> images,
               individual_palettes |-> <<>>, aggregated_palette |-> <<>>]
    /\ pc' = "done"
    /\ UNCHANGED <<argVars, num_colors, kmeansVars, cityVars>>

\* test_palette.py 98-99, test_palette copy.py 433-435
ReturnNoImages ==
    /\ pc = "call" /\ city_dir_exists /\ images = 0
    /\ ret' = None
    /\ pc' = "done"
    /\ UNCHANGED <<argVars, num_colors, kmeansVars, cityVars>>

\* test_palette.py 101-104, test_palette copy.py 437-441
EnterLoop ==
    /\ pc = "call" /\ city_dir_exists /\ images > 0
    /\ pc' = "loop"
    /\ UNCHANGED <<argVars, num_colors, ret, kmeansVars, cityVars>>

\* the body of the loop has run for image idx + 1 and got colors
Recorded(cs) ==
    /\ all_palettes' = Append(all_palettes, [image |-> idx + 1, colors |-> cs])
    /\ all_colors' = all_colors \o cs
    /\ reads' = Append(reads, "ok")
    /\ idx' = idx + 1

\* the body of the loop has run for image idx + 1 and recorded nothing
Skipped ==
    /\ reads' = Append(reads, "failed")
    /\ idx' = idx + 1
    /\ UNCHANGED <<all_palettes, all_colors>>

\* test_palette.py 106-110
ImageExtracted ==
    /\ pc = "loop" /\ idx < images /\ script = "test_palette.py"
    /\ \E cs \in Palettes_extract_colors[num_colors] : Recorded(cs)
    /\ UNCHANGED <<pc, ret, argVars, num_colors, kmeansVars, script, images,
                   city_dir_exists>>

\* as ImageRaises, without the try of line 107: the exception ends process_city
ImageRaisesUncaught ==
    /\ pc = "loop" /\ idx < images /\ script = "test_palette.py"
    /\ pc' = "done"
    /\ ret' = None
    /\ UNCHANGED <<argVars, num_colors, kmeansVars, cityVars>>

\* test_palette.py 106-108, 111-112: extract_colors raises
ImageRaises ==
    /\ pc = "loop" /\ idx < images /\ script = "test_palette.py"
    /\ Skipped
    /\ UNCHANGED <<pc, ret, argVars, num_colors, kmeansVars, script, images,
                   city_dir_exists>>

\* test_palette copy.py 443-457, extract_colors_easy 382-402
ImageEasy ==
    /\ pc = "loop" /\ idx < images /\ script = "test_palette copy.py"
    /\ \E cs \in Palettes_extract_colors_easy[num_colors] :
          IF cs # <<>> THEN Recorded(cs) ELSE Skipped
    /\ UNCHANGED <<pc, ret, argVars, num_colors, kmeansVars, script, images,
                   city_dir_exists>>

\* test_palette copy.py 443-457, extract_colors_easy 404-409 and
\* extract_colors_from_image 345-365: ColorThief raises, the image loads
ImageManual ==
    /\ pc = "loop" /\ idx < images /\ script = "test_palette copy.py"
    /\ \E cs \in Palettes_extract_colors_from_image[num_colors] :
          IF cs # <<>> THEN Recorded(cs) ELSE Skipped
    /\ UNCHANGED <<pc, ret, argVars, num_colors, kmeansVars, script, images,
                   city_dir_exists>>

\* test_palette copy.py 443-457, extract_colors_easy 404-409 and
\* extract_colors_from_image 345-347: ColorThief raises, the image does not load
ImageUnreadable ==
    /\ pc = "loop" /\ idx < images /\ script = "test_palette copy.py"
    /\ Skipped
    /\ UNCHANGED <<pc, ret, argVars, num_colors, kmeansVars, script, images,
                   city_dir_exists>>

\* test_palette.py 114-122, test_palette copy.py 460-468
ReturnCityData ==
    /\ pc = "loop" /\ idx = images
    /\ ret' = [kind |-> "dict",
               image_count |-> images,
               individual_palettes |-> all_palettes,
               aggregated_palette |-> most_common(all_colors, num_colors)]
    /\ pc' = "done"
    /\ UNCHANGED <<argVars, num_colors, kmeansVars, cityVars>>

Next ==
    \/ ReturnNoDirectory
    \/ ReturnNoImages
    \/ EnterLoop
    \/ ImageExtracted
    \/ ImageRaises
    \/ ImageEasy
    \/ ImageManual
    \/ ImageUnreadable
    \/ ReturnCityData

Spec == Init /\ [][Next]_vars

-----------------------------------------------------------------------------
(* Properties of the diversity selector (SpecDiversity) *)

DiversityReturned == pc \in {"ensure_diversity", "ensure_color_diversity"}

\* C1: every two colours the diversity selector keeps are at a Euclidean RGB
\* distance strictly greater than min_distance, and the first colour of a
\* non-empty input is the first colour kept.
C1_KeptColorsApart ==
    DiversityReturned =>
        /\ \A i, j \in 1..Len(ret) :
               i < j => \/ min_distance < 0
                        \/ color_distance(ret[i], ret[j]) > min_distance * min_distance
        /\ colors # <<>> => ret # <<>> /\ ret[1] = colors[1]

\* at the default distance a colour exactly 30 away from the first is dropped
\* and a later one kept
C1_Witness ==
    /\ DiversityReturned
    /\ min_distance = DefaultMinDistance
    /\ colors = <<Red, NearRed, Blue>>
    /\ ret = <<Red, Blue>>

-----------------------------------------------------------------------------
(* Properties of the colour filter (SpecFilter) *)

StrictFilterReturned ==
    \/ pc = "filter_colors"
    \/ pc = "filter_boring_colors" /\ strict

AllBelow20 == \A i \in 1..Len(colors) : Lt(Saturation(colors[i]), Num(20))

SameColors(a, b) == \A c \in Range(a) \cup Range(b) : Count(a, c) = Count(b, c)

DescendingSaturation(cs) ==
    \A i, j \in 1..Len(cs) : i < j => Le(Saturation(cs[j]), Saturation(cs[i]))

\* C2 as stated: for any input list whose colours all have saturation below 20
\* the strict filter returns a non-empty list of the length of the input, the
\* input colours by descending saturation.
C2_AsStated ==
    (StrictFilterReturned /\ AllBelow20) =>
        /\ ret # <<>>
        /\ Len(ret) = Len(colors)
        /\ SameColors(ret, colors)
        /\ DescendingSaturation(ret)

\* C2, amended: for any non-empty input list whose colours all have saturation
\* below 20 the strict filter returns a non-empty list of the length of the
\* input, the input colours by descending saturation; for the empty input it
\* returns the empty list.
C2_Fallback ==
    (StrictFilterReturned /\ AllBelow20) =>
        /\ colors # <<>> => ret # <<>>
        /\ Len(ret) = Len(colors)
        /\ SameColors(ret, colors)
        /\ DescendingSaturation(ret)

\* the fallback has reordered an input of dull colours
C2_Witness ==
    /\ StrictFilterReturned
    /\ colors = <<Gray, Dull2, Silver>>
    /\ ret = <<Dull2, Gray, Silver>>

\* the rules of the strict filter, as the claims state them
PassesRules(c) ==
    /\ Le(Num(15), Lightness(c)) /\ Le(Lightness(c), Num(85))
    /\ Le(Num(20), Saturation(c))
    /\ ~(/\ Lt(Saturation(c), Num(30))
         /\ Lt(Num(25), Lightness(c)) /\ Lt(Lightness(c), Num(75)))

EarthTone(c) ==
    /\ Le(Num(15), Hue(c)) /\ Le(Hue(c), Num(45))
    /\ Lt(Saturation(c), Num(55))
    /\ Lt(Num(25), Lightness(c)) /\ Lt(Lightness(c), Num(65))

\* candidate i passes the rules and is no earth tone beyond the cap
Survives(cs, i, cap) ==
    /\ PassesRules(cs[i])
    /\ EarthTone(cs[i]) =>
           Cardinality({j \in 1..(i - 1) : PassesRules(cs[j]) /\ EarthTone(cs[j])}) < cap

Survivors(cs, cap) == {i \in 1..Len(cs) : Survives(cs, i, cap)}

\* how many survivors come before survivor i: those of greater saturation and
\* those of equal saturation earlier in the input
SaturationRank(cs, K, i) ==
    Cardinality({j \in K : \/ Lt(Saturation(cs[i]), Saturation(cs[j]))
                           \/ /\ Le(Saturation(cs[i]), Saturation(cs[j]))
                              /\ Le(Saturation(cs[j]), Saturation(cs[i]))
                              /\ j < i})

\* C6: in strict mode, when a candidate survives, the filter returns exactly
\* the candidates that pass the lightness, saturation and muddy-middle rules and
\* are no earth tone beyond the cap, by descending saturation, those of equal
\* saturation in input order.
C6_StrictFilter ==
    LET K == Survivors(colors, max_browns)
    IN  (StrictFilterReturned /\ K # {}) =>
            /\ Len(ret) = Cardinality(K)
            /\ \A i \in K : ret[SaturationRank(colors, K, i) + 1] = colors[i]

\* a brown beyond the cap of 1 is dropped and the survivors are reordered
C6_Witness ==
    /\ StrictFilterReturned
    /\ max_browns = 1
    /\ colors = <<Brown1, Brown2, Red>>
    /\ ret = <<Red, Brown1>>

\* C7 as stated: the output of the filter never holds mid-gray (128,128,128)
\* and always holds (230,20,20) when the input does.
C7_AsStated ==
    StrictFilterReturned =>
        /\ Gray \in Range(colors) => Gray \notin Range(ret)
        /\ Red \in Range(colors) => Red \in Range(ret)

\* C7, amended: when some candidate of the input survives the rules, the output
\* does not hold mid-gray (128,128,128); when none survives, the fallback
\* returns every input colour, mid-gray included; (230,20,20) is in the output
\* whenever it is in the input.
C7_GrayAndRed ==
    StrictFilterReturned =>
        /\ (Gray \in Range(colors) /\ Survivors(colors, max_browns) # {})
               => Gray \notin Range(ret)
        /\ (Gray \in Range(colors) /\ Survivors(colors, max_browns) = {})
               => Gray \in Range(ret)
        /\ Red \in Range(colors) => Red \in Range(ret)

C7_Witness ==
    /\ StrictFilterReturned
    /\ colors = <<Gray, Pale, Red>>
    /\ ret = <<Red, Pale>>

-----------------------------------------------------------------------------
(* Properties of the palette of one image (SpecExtract) *)

ExtractReturned ==
    pc \in {"extract_colors", "extract_colors_easy", "extract_colors_from_image"}

\* C8: the palette of an image has at most num_colors colours and no colour
\* twice, whatever list of candidates, repeated ones included, the quantizer
\* returned.
C8_PaletteBounded ==
    ExtractReturned =>
        /\ Len(ret) <= num_colors
        /\ \A i, j \in 1..Len(ret) : i # j => ret[i] # ret[j]

\* a repeated candidate is dropped and the palette cut to num_colors
C8_Witness ==
    /\ ExtractReturned
    /\ num_colors = 1
    /\ colors = <<Red, Red, Blue>>
    /\ ret = <<rgb_to_hex(Red)>>

-----------------------------------------------------------------------------
(* Properties of kmeans_colors (SpecKMeans) *)

\* C4: on a population of fewer than k distinct colours kmeans_colors raises
\* no error and returns fewer than k centroids, none of them twice, and the
\* empty list for the empty population.
C4_FewerThanK ==
    Cardinality(Range(pixels)) < k =>
        /\ pc # "raised"
        /\ pc = "done" =>
              /\ Len(ret) < k
              /\ \A i, j \in 1..Len(ret) : i # j => ret[i] # ret[j]
              /\ pixels = <<>> => ret = <<>>

\* the position of centroid i in the result when clusters of equal size keep
\* the order of their centroids
StableRank(i) ==
    Cardinality({j \in 1..k : \/ Len(clusters[j]) > Len(clusters[i])
                              \/ Len(clusters[j]) = Len(clusters[i]) /\ j < i})

\* the position of centroid i in the result when clusters of equal size are
\* ordered by descending (r, g, b), equal centroids in the order of their index
TupleRank(i) ==
    Cardinality({j \in 1..k :
        \/ Len(clusters[j]) > Len(clusters[i])
        \/ /\ Len(clusters[j]) = Len(clusters[i])
           /\ \/ ColorGt(centroids[j], centroids[i])
              \/ centroids[j] = centroids[i] /\ j < i})

\* C5 as stated: the centroids are returned by descending cluster size, those
\* of equal cluster size in ascending order of their index.
C5_AsStated ==
    pc = "done" =>
        /\ Len(ret) = k
        /\ \A i \in 1..k : ret[StableRank(i) + 1] = centroids[i]

\* C5, amended: the centroids are returned by descending cluster size, those of
\* equal cluster size by descending (r, g, b) tuple, whatever their index.
C5_BySizeThenColor ==
    pc = "done" =>
        /\ Len(ret) = k
        /\ \A i \in 1..k : ret[TupleRank(i) + 1] = centroids[i]

\* two clusters of one pixel each, returned against the order of their index
C5_Witness ==
    /\ pc = "done"
    /\ k = 2
    /\ Len(clusters[1]) = Len(clusters[2])
    /\ centroids = <<Blue, Red>>
    /\ ret = <<Red, Blue>>

-----------------------------------------------------------------------------
(* Properties of process_city (Spec) *)

RECURSIVE Flatten(_, _)
Flatten(palettes, i) ==
    IF i > Len(palettes) THEN <<>>
    ELSE palettes[i].colors \o Flatten(palettes, i + 1)

FirstIndex(seq, x) == CHOOSE i \in 1..Len(seq) :
                          seq[i] = x /\ \A j \in 1..(i - 1) : seq[j] # x

\* how many colours come before x in the ranking: the more frequent ones and
\* those as frequent that occur earlier
FrequencyRank(seq, x) ==
    Cardinality({y \in Range(seq) :
        \/ Count(seq, y) > Count(seq, x)
        \/ Count(seq, y) = Count(seq, x) /\ FirstIndex(seq, y) < FirstIndex(seq, x)})

Returned == pc = "done" /\ ret # None

\* C3: the aggregated palette is made of the num_colors most frequent colours
\* of the flattened per-image palettes, by descending count, those of equal
\* count in the order of their first occurrence; it has no colour twice and
\* min(num_colors, number of distinct colours) entries.
C3_Aggregation ==
    Returned =>
        LET agg == ret.aggregated_palette
            distinct == Cardinality(Range(all_colors))
        IN  /\ all_colors = Flatten(ret.individual_palettes, 1)
            /\ Len(agg) = IF num_colors < distinct THEN num_colors ELSE distinct
            /\ \A i, j \in 1..Len(agg) : i # j => agg[i] # agg[j]
            /\ \A x \in Range(all_colors) :
                   FrequencyRank(all_colors, x) < num_colors
                       => agg[FrequencyRank(all_colors, x) + 1] = x

\* the palettes [A,B], [B,C], [B,A] with target count 2 give [B,A]
C3_Witness ==
    /\ Returned
    /\ num_colors = 2
    /\ Len(all_palettes) = 3
    /\ all_palettes[1].colors = <<rgb_to_hex(Red), rgb_to_hex(Blue)>>
    /\ all_palettes[2].colors = <<rgb_to_hex(Blue), rgb_to_hex(Green)>>
    /\ all_palettes[3].colors = <<rgb_to_hex(Blue), rgb_to_hex(Red)>>
    /\ ret.aggregated_palette = <<rgb_to_hex(Blue), rgb_to_hex(Red)>>

\* the images among the first n that gave a palette
OkImages(n) == {i \in 1..n : reads[i] = "ok"}

\* C9: an image that fails leaves no record and no colours and does not end
\* the loop: the records are those of the images that succeeded, in order, the
\* colours are those of the records, and process_city returns its record only
\* after the last image, with all these records.
C9_FailureSkipsImage ==
    /\ Len(reads) = idx
    /\ Len(all_palettes) = Cardinality(OkImages(idx))
    /\ \A p \in 1..Len(all_palettes) :
           /\ all_palettes[p].image \in OkImages(idx)
           /\ Cardinality(OkImages(all_palettes[p].image)) = p
    /\ all_colors = Flatten(all_palettes, 1)
    /\ (pc = "done" /\ city_dir_exists /\ images > 0) =>
           /\ idx = images
           /\ ret # None
           /\ ret.image_count = images
           /\ ret.individual_palettes = all_palettes

\* the second of three images failed and the third is in the record
C9_Witness ==
    /\ Returned
    /\ reads = <<"ok", "failed", "ok">>
    /\ Len(ret.individual_palettes) = 2
    /\ ret.individual_palettes[2].image = 3

\* C10 as stated: a group without a palette, be it without images or with
\* failed images only, gives a record whose aggregated palette is empty.
C10_AsStated ==
    (pc = "done" /\ city_dir_exists /\ all_palettes = <<>>) =>
        /\ ret # None
        /\ ret.aggregated_palette = <<>>

\* C10, amended: a group with images of which none gave a palette gives a
\* record whose aggregated palette is the empty list; a group without images
\* gives None, no record; no error is raised in either case.
C10_NoPalettes ==
    (pc = "done" /\ city_dir_exists /\ all_palettes = <<>>) =>
        IF images > 0
        THEN /\ ret # None
             /\ ret.individual_palettes = <<>>
             /\ ret.aggregated_palette = <<>>
        ELSE ret = None

\* every image of a group of two failed
C10_Witness ==
    /\ Returned
    /\ images = 2
    /\ reads = <<"failed", "failed">>
    /\ ret.aggregated_palette = <<>>

-----------------------------------------------------------------------------
(* C11: four pixels of four distinct, highly saturated colours that pass   *)
(* the filter and lie pairwise more than the minimum distance apart, with  *)
(* target count 4: extract_colors_from_image gives a palette with exactly  *)
(* the hex values of the four colours                                      *)

FourVividPixels ==
    /\ Len(pixels) = 4
    /\ \A i, j \in 1..4 :
           i # j => FartherThan(pixels[i], pixels[j], DefaultMinDistance)
    /\ \A i \in 1..4 : PassesRules(pixels[i]) /\ ~EarthTone(pixels[i])

-----------------------------------------------------------------------------
(* C12: rgb_to_hex of a colour with channels in 0..255 is a string of 7    *)
(* characters, '#' and two zero-padded lowercase hexadecimal digits per    *)
(* channel; hex_to_rgb(rgb_to_hex(c)) = c, and rgb_to_hex(hex_to_rgb(h)) = *)
(* h for every such string h                                               *)

LowercaseHex == {"0", "1", "2", "3", "4", "5", "6", "7", "8", "9",
                 "a", "b", "c", "d", "e", "f"}

\* the digit d stands for the value v
DigitOf(d, v) ==
    <<v, d>> \in {<<0, "0">>, <<1, "1">>, <<2, "2">>, <<3, "3">>,
                  <<4, "4">>, <<5, "5">>, <<6, "6">>, <<7, "7">>,
                  <<8, "8">>, <<9, "9">>, <<10, "a">>, <<11, "b">>,
                  <<12, "c">>, <<13, "d">>, <<14, "e">>, <<15, "f">>}

C12_HexRoundTrip ==
    /\ pc = "rgb_to_hex" =>
           /\ Len(ret) = 7
           /\ ret[1] = "#"
           /\ \A i \in 2..7 : ret[i] \in LowercaseHex
           /\ \A ch \in 1..3 :
                  \E hi, lo \in 0..15 :
                      /\ colors[1][ch] = 16 * hi + lo
                      /\ DigitOf(ret[2 * ch], hi)
                      /\ DigitOf(ret[2 * ch + 1], lo)
    /\ pc = "hex_to_rgb(rgb_to_hex)" => ret = colors[1]
    /\ pc = "rgb_to_hex(hex_to_rgb)" => ret = all_colors[1]

C12_Witness ==
    \/ /\ pc = "hex_to_rgb(rgb_to_hex)"
       /\ colors = <<<<0, 15, 255>>>>
       /\ ret = <<0, 15, 255>>
    \/ /\ pc = "rgb_to_hex(hex_to_rgb)"
       /\ all_colors = << <<"#", "0", "9", "a", "f", "f", "1">> >>
       /\ ret = <<"#", "0", "9", "a", "f", "f", "1">>

-----------------------------------------------------------------------------
(* C13: in every state of the clustering loop every centroid has its three *)
(* channels in 0..255, and so has every colour kmeans_colors returns       *)

ChannelsInRange(c) == \A ch \in 1..3 : c[ch] \in 0..255

C13_CentroidsInRange ==
    /\ \A i \in 1..Len(centroids) : ChannelsInRange(centroids[i])
    /\ pc = "done" => \A i \in 1..Len(ret) : ChannelsInRange(ret[i])

\* a returned centroid that is the mean of a red and a rose pixel
C13_Witness ==
    /\ pc = "done"
    /\ iteration >= 1
    /\ <<235, 25, 25>> \in Range(ret)
    /\ <<235, 25, 25>> \notin Range(pixels)

-----------------------------------------------------------------------------
(* C14: the palette of an image depends on the pixels of that image and on *)
(* the fixed configuration only, so that it is the same in whatever order  *)
(* the images are processed: whatever random.sample draws, the palette     *)
(* built from the colours kmeans_colors returns is the one built when the  *)
(* first k pixels are drawn                                                *)

C14_PaletteFromPixelsOnly ==
    (pc = "done" /\ Len(pixels) >= k /\ max_iterations = DefaultMaxIterations) =>
        LET first == kmeans_colors(pixels, k, max_iterations, SubSeq(pixels, 1, k))
        IN  extract_colors_from_image(ret, NUM_COLORS)
                = extract_colors_from_image(first[2], NUM_COLORS)

-----------------------------------------------------------------------------
(* C15: the diversity selector is one greedy pass: a colour is discarded   *)
(* if and only if its distance to some colour kept earlier in the pass is  *)
(* at most min_distance, and the result is the kept colours in the order   *)
(* of the input                                                            *)

Within(c1, c2, m) == m >= 0 /\ color_distance(c1, c2) <= m * m

\* kept[i] for every position i of cs: the decisions of a greedy pass
GreedyPass(cs, m, kept) ==
    \A i \in 1..Len(cs) :
        kept[i] <=> ~ \E j \in 1..(i - 1) : kept[j] /\ Within(cs[i], cs[j], m)

\* res is cs restricted to the kept positions, order unchanged
KeptInOrder(cs, kept, res) ==
    /\ Len(res) = Cardinality({i \in 1..Len(cs) : kept[i]})
    /\ \A i \in 1..Len(cs) :
           kept[i] => res[Cardinality({j \in 1..i : kept[j]})] = cs[i]

C15_GreedySinglePass ==
    DiversityReturned =>
        \E kept \in [1..Len(colors) -> BOOLEAN] :
            /\ GreedyPass(colors, min_distance, kept)
            /\ KeptInOrder(colors, kept, ret)

\* the second colour is dropped for the first, the third is kept behind it
C15_Witness ==
    /\ pc = "ensure_color_diversity"
    /\ min_distance = DefaultMinDistance
    /\ colors = <<Rose, Red, Blue>>
    /\ ret = <<Rose, Blue>>

-----------------------------------------------------------------------------
(* C16 as stated: for every input and every cap max_browns >= 0 the strict *)
(* filter returns at most max_browns earth tones                            *)

EarthTonesIn(cs) == {i \in 1..Len(cs) : EarthTone(cs[i])}

C16_AsStated ==
    StrictFilterReturned => Cardinality(EarthTonesIn(ret)) <= max_browns

\* C16: when some candidate survives, the strict filter returns at most
\* max_browns earth tones, and they are the first max_browns candidates, in
\* input order, among the earth tones that pass the lightness, saturation and
\* muddy-middle rules; an earth tone those rules reject uses none of the cap.
\* When no candidate survives the whole input comes back, earth tones included.
C16_EarthToneCap ==
    LET passing == {i \in EarthTonesIn(colors) : PassesRules(colors[i])}
        first   == {i \in passing :
                       Cardinality({j \in passing : j < i}) < max_browns}
    IN  /\ (StrictFilterReturned /\ Survivors(colors, max_browns) # {}) =>
               /\ Cardinality(EarthTonesIn(ret)) <= max_browns
               /\ \A c \in Range(colors) \cup Range(ret) :
                      EarthTone(c) =>
                          Count(ret, c) = Cardinality({i \in first : colors[i] = c})
        /\ (StrictFilterReturned /\ Survivors(colors, max_browns) = {}) =>
               Cardinality(EarthTonesIn(ret)) = Cardinality(EarthTonesIn(colors))

\* a dull earth tone the saturation rule rejects leaves the cap of 1 to the
\* first brown; the second brown is dropped
C16_Witness ==
    /\ StrictFilterReturned
    /\ max_browns = 1
    /\ colors = <<Dull2, Brown1, Brown2>>
    /\ EarthTone(Dull2) /\ ~PassesRules(Dull2)
    /\ ret = <<Brown1>>

-----------------------------------------------------------------------------
(* C17: the loop of kmeans_colors ends after at most max_iterations rounds: *)
(* at the first round whose recomputed centroids equal the previous ones,   *)
(* else when max_iterations rounds are done.  When it ends by convergence   *)
(* the returned centroids are a fixed point of a round and the result is    *)
(* ordered by the cluster sizes under these centroids.                      *)

\* the loop has ended by the break of line 194
StoppedByConvergence == pc \in {"sort", "done"} /\ iteration < max_iterations

RoundsBounded ==
    /\ iteration <= max_iterations
    /\ StoppedByConvergence =>
           LET cls == assign_clusters(pixels, k, centroids)
           IN  /\ new_centroids(cls, centroids) = centroids
               /\ clusters = cls
               /\ pc = "done" => ret = sort_by_cluster_size(cls, centroids, k)

\* what a step taken inside the loop does
LoopStep ==
    pc = "loop" =>
        IF iteration = max_iterations THEN pc' = "sort" /\ centroids' = centroids
        ELSE LET cls == assign_clusters(pixels, k, centroids)
             IN  IF new_centroids_raises(cls, centroids) THEN pc' = "raised"
                 ELSE IF new_centroids(cls, centroids) = centroids
                      THEN pc' = "sort" /\ iteration' = iteration
                      ELSE pc' = "loop" /\ iteration' = iteration + 1

\* until kmeans_colors has returned or raised, the guard of a step holds:
\* random.sample has something to draw, the loop is within range(max_iterations)
\* or at its end, and the sort follows the loop
NotStuck ==
    /\ pc \in {"call", "loop", "sort", "done", "raised"}
    /\ pc = "call" =>
           Samples(pixels, IF k < Len(pixels) THEN k ELSE Len(pixels)) # {}
    /\ pc = "loop" => iteration < max_iterations \/ iteration = max_iterations

\* every step in the loop leaves it or counts a round, max_iterations bounds the
\* rounds, and no state before the end is without a step
C17_LoopTerminates ==
    /\ []RoundsBounded
    /\ [][LoopStep]_vars
    /\ []NotStuck

\* one round moves a centroid, the next finds a fixed point
C17_Witness ==
    /\ pc = "done"
    /\ max_iterations = DefaultMaxIterations
    /\ iteration = 1
    /\ pixels = <<Blue, Gray, Red>>
    /\ centroids = << <<74, 74, 179>>, Red >>
    /\ ret = centroids

-----------------------------------------------------------------------------
(* C18: a round of kmeans_colors puts every pixel into the cluster of the  *)
(* centroid at the least Euclidean RGB distance, the lowest index among    *)
(* equidistant centroids; the centroid of a non-empty cluster becomes the  *)
(* per-channel floor of the mean of its pixels, and the centroid of an     *)
(* empty cluster keeps its value                                           *)

\* centroid number c is the first of the centroids nearest to pixel p
FirstNearest(p, c) ==
    /\ c \in 1..Len(centroids)
    /\ \A j \in 1..Len(centroids) :
           /\ j < c => color_distance(p, centroids[j]) > color_distance(p, centroids[c])
           /\ j > c => color_distance(p, centroids[j]) >= color_distance(p, centroids[c])

\* m is the floor of the mean of channel ch over the pixels ps
FloorOfMean(m, ps, ch) ==
    /\ m * Len(ps) <= SumChannel(ps, ch, 1)
    /\ SumChannel(ps, ch, 1) < (m + 1) * Len(ps)

RoundStep ==
    (pc = "loop" /\ iteration < max_iterations) =>
        /\ \A c \in 1..k :
               clusters'[c] = SelectSeq(pixels, LAMBDA p : FirstNearest(p, c))
        /\ pc' # "raised" =>
               /\ Len(centroids') = k
               /\ \A c \in 1..k :
                      IF clusters'[c] = <<>>
                      THEN centroids'[c] = centroids[c]
                      ELSE \A ch \in 1..3 :
                               FloorOfMean(centroids'[c][ch], clusters'[c], ch)

C18_OneRound == [][RoundStep]_vars

\* all pixels go to the first of two equal centroids, which becomes the floor
\* of their mean; the second, its cluster empty, stays red
C18_Witness ==
    /\ pc = "loop"
    /\ iteration = 1
    /\ pixels = <<Red, Rose, Red>>
    /\ clusters = << <<Red, Rose, Red>>, <<>> >>
    /\ centroids = << <<233, 23, 23>>, Red >>

=============================================================================
